---- MODULE Spec2Model ----
(***************************************************************************)
(* Pod-management core of KuberDock: kubedock/kapi/pod.py (Pod) and        *)
(* kubedock/kapi/podcollection.py (PodCollection).                         *)
(*                                                                         *)
(* Spec      the lifecycle operations of PodCollection (update/start/stop, *)
(*           delete) and Pod.set_status, one orchestrator call per step.   *)
(***************************************************************************)
EXTENDS Integers, Sequences, FiniteSets, TLC

(***************************************************************************)
(* Bounds                                                                  *)
(***************************************************************************)
\* services the orchestrator is asked to hold per namespace before POST fails
MaxSvc == 2

\* calls of prepare on one pod
MaxPrepare == 2
\* volume mounts of a container
MaxMounts == 2

\* volumes declared by a pod given to compose_persistent
MaxDecls == 2
\* largest size of a persistent disk
MaxSize == 2
\* ports declared by one container
MaxPorts == 2
\* live pod items returned by one fetch
MaxItems == 2
\* replication controllers returned by one fetch
MaxRcs == 1
\* persisted pods returned by _fetch_pods
MaxDb == 2
MaxName == 2
MaxAdds == 2

Pods == {"p1", "p2"}

(***************************************************************************)
(* Python values                                                           *)
(***************************************************************************)
\* settings.KUBERDOCK_INTERNAL_USER, a str
KUBERDOCK_INTERNAL_USER == [type |-> "str", val |-> "kuberdock-internal"]

\* PodOwner(id, username): a dict subclass with the two fields
PodOwner(id, username) == [type |-> "PodOwner", id |-> id, username |-> username]

\* Python's == between the values above: a dict never equals a str
PyEq(a, b) == a.type = b.type /\ a = b

\* PodOwner.is_internal
is_internal(owner) == owner.username = KUBERDOCK_INTERNAL_USER.val

\* POD_STATUSES as used by set_status and the persisted state machine
POD_STATUSES == {"pending", "running", "stopped", "unpaid", "deleted"}

\* DBPod.query.get(id) returning None
NoRecord == "NoRecord"

\* getattr(self, 'status', None) when the attribute is not set
NoStatus == "None"

\* the attribute self.volumes: not set, or set to a list
NoAttr == [has |-> FALSE, list |-> <<>>]
Attr(l) == [has |-> TRUE, list |-> l]

\* PersistentDisk rows are found by (owner_id, name)
DiskKeys == {"1", "2"} \X {"d1"}

\* PersistentDiskStatuses; NONE stands for the absence of the row
DiskStates == {"PENDING", "CREATED", "DELETED"}
NoDisk == [state |-> "NONE", size |-> 0, rows |-> 0]

\* PersistentDisk.id of the row of a key
DiskId(k) == k[1] \o "/" \o k[2]

\* no exception, and VolumeExists(volume_name, volume_id)
NoError == [err |-> "none", name |-> "", id |-> ""]
VolumeExists(volume_name, volume_id) ==
    [err |-> "VolumeExists", name |-> volume_name, id |-> volume_id]

VARIABLES
    collection,  \* PodCollection._collection: the pods get_by_id finds
    pod,         \* per pod: attributes of the in-memory Pod that operations read
    status,      \* per pod: Pod.status (in memory)
    dbStatus,    \* per pod: status of the persisted record, or NoRecord
    dbService,   \* per pod: 'service' of the persisted config, 0 when not set
    ns,          \* per pod: its namespace exists in the orchestrator
    rc,          \* per pod: its workload object exists in the namespace
    svc,         \* per pod: names of the service objects in the namespace
    svcCreated,  \* per pod: number of service objects ever created for it
    inst,        \* per pod: live pod instances in the namespace
    pc,          \* per pod: position of the operation in flight, or "idle"
    cur,         \* per pod: the last operation called and what it saw on entry
    log,         \* per pod: mutating calls issued by that operation, in order
    result       \* per pod: outcome of that operation

lifeVars == <<collection, pod, status, dbStatus, dbService, ns, rc, svc,
              svcCreated, inst, pc, cur, log, result>>

VARIABLES
    pVolumes,        \* Pod.volumes of the pod prepare is called on, or NoAttr
    pContainers,     \* Pod.containers of that pod
    pServiceAccount, \* Pod.serviceAccount of that pod
    uuid,            \* number of uuid.uuid4() values drawn so far
    specs            \* the configs returned by the calls of prepare, in order

prepVars == <<pVolumes, pContainers, pServiceAccount, uuid, specs>>

VARIABLES
    disks,      \* the PersistentDisk rows, by (owner_id, name)
    dOwner,     \* self.owner.id of the pod being composed
    dReuse,     \* reuse_pv of the call in flight
    dVolumes,   \* self.volumes of that pod
    dPublic,    \* self.volumes_public of that pod
    dIdx,       \* position of the loop over the volumes, 0 when no call is in flight
    dClean,     \* clean_vols of the call in flight
    dResult,    \* outcome of the last call
    dFound      \* state of the row the last persistent-disk declaration found

diskVars == <<disks, dOwner, dReuse, dVolumes, dPublic, dIdx, dClean, dResult,
              dFound>>

\* Pod._prepare_container applied to one container
VARIABLES
    tOwner,     \* self.owner of the pod
    tContainer, \* the container passed in
    tOut        \* the containers returned so far

containerVars == <<tOwner, tContainer, tOut>>

\* PodCollection.__init__: _get_pods, then _merge
VARIABLES
    fItems,     \* data: the pod items fetched, in fetch order
    fReplicas,  \* replicas_data: the replication controllers fetched
    fDb,        \* db_pods: the persisted pods _fetch_pods returns
    fColl,      \* self._collection, as the list of its (key, pod) entries
    fIndex,     \* pod_index of _get_pods
    fPos,       \* items, then persisted pods, handled so far
    fPc,        \* "fetch", "merge", "done" or "raised"
    fErr        \* the exception raised, if any

fetchVars == <<fItems, fReplicas, fDb, fColl, fIndex, fPos, fPc, fErr>>

\* PodCollection._is_related applied to one pair of maps
VARIABLES
    rOne,       \* the labels
    rTwo,       \* the selector
    rOut        \* what the call returned: "none" before it

relatedVars == <<rOne, rTwo, rOut>>

\* the template labels of Pod.prepare
VARIABLES
    lId,        \* self.id
    lOwnerId,   \* self.owner.id
    lLabels,    \* self.labels, or NoLabels when the attribute is not set
    lOut        \* template metadata.labels of the spec returned, once returned

labelVars == <<lId, lOwnerId, lLabels, lOut>>

\* the namespaces PodCollection.add derives
VARIABLES
    aAdds       \* the calls of add so far: owner username, pod name, namespace

addVars == <<aAdds>>

\* two pods of one collection, one lifecycle operation called on each
VARIABLES
    xState,     \* orchestrator, persisted records and the operations' positions
    xStart,     \* the same before the two operations were called
    xNsOf,      \* per pod: pod.namespace
    xOp         \* per pod: the operation called on it

crossVars == <<xState, xStart, xNsOf, xOp>>

\* the candidate namespaces of a collection
VARIABLES
    gOwner,     \* self.owner of the collection: None, or a user's username
    gOut        \* what _get_namespaces returned, once it returned

scopeVars == <<gOwner, gOut>>

extraVars == <<labelVars, addVars, crossVars, scopeVars>>

\* the state of the pure functions, at rest while a lifecycle is explored
restVars == <<containerVars, fetchVars, relatedVars, extraVars>>

vars == <<lifeVars, prepVars, diskVars, restVars>>

(***************************************************************************)
(* Orchestrator and helpers                                                *)
(***************************************************************************)
\* outcome of a DELETE: only an existing object can be deleted
DelOutcomes(exists) == IF exists THEN BOOLEAN ELSE {FALSE}

\* outcome of a POST: only where the orchestrator can accept the object
PostOutcomes(possible) == IF possible THEN BOOLEAN ELSE {FALSE}

\* Utilities._raise_if_failure(rv, message): raises on a non-success result
RaiseIfFailure(ok) == ~ok

Call(name, ok) == [call |-> name, ok |-> ok]

\* the live pod instances the orchestrator may run in one namespace
Instances == {1, 2}

\* spec.selector of the workload prepare builds: {'kuberdock-pod-uid': self.id}
WorkloadSelector(p) == [uid |-> p]

\* metadata.labels of live instance i in the namespace of pod p, from the
\* template labels of prepare: every instance carries the pod uid; instance 1
\* carries in addition a 'name' label with the pod's name
InstLabels(p, i) ==
    IF i = 1 THEN [name |-> p, uid |-> p] ELSE [uid |-> p]

\* the loop of _is_related when two.keys() yields the key first at first: the
\* first turn returns
IsRelatedFrom(one, two, first) ==
    IF first \notin DOMAIN one THEN FALSE
    ELSE IF one[first] # two[first] THEN FALSE
    ELSE TRUE

\* PodCollection._is_related(one, two); with no key in two the loop is not
\* entered and None is returned
IsRelated(one, two) ==
    IF DOMAIN two = {} THEN FALSE
    ELSE IsRelatedFrom(one, two, CHOOSE x \in DOMAIN two : TRUE)

\* the instances _stop_cluster deletes: those related to {'name': pod.name}
Related(p) == {i \in inst[p] : IsRelated(InstLabels(p, i), [name |-> p])}

RECURSIVE SetToSeq(_)
SetToSeq(S) ==
    IF S = {} THEN <<>>
    ELSE LET m == CHOOSE x \in S : \A y \in S : x <= y
         IN  <<m>> \o SetToSeq(S \ {m})

Finish(p, res) ==
    /\ pc' = [pc EXCEPT ![p] = "idle"]
    /\ result' = [result EXCEPT ![p] = res]

Goto(p, label) ==
    /\ pc' = [pc EXCEPT ![p] = label]
    /\ UNCHANGED result

Enter(p, op, force) ==
    /\ cur' = [cur EXCEPT ![p] = [op |-> op, force |-> force,
                                  st0 |-> status[p], db0 |-> dbStatus[p]]]
    /\ log' = [log EXCEPT ![p] = <<>>]

Append1(p, c) == log' = [log EXCEPT ![p] = Append(@, c)]

\* what no lifecycle step writes
LifeUnchanged == UNCHANGED <<collection, pod, prepVars, diskVars, restVars>>

\* an operation of PodCollection may begin on p: none is in flight on it
\* (callers serialise the operations on one pod) and its id is that of a
\* persisted pod
Callable(p) == pc[p] = "idle" /\ p \in collection /\ dbStatus[p] # NoRecord

(***************************************************************************)
(* Pod.set_status                                                          *)
(***************************************************************************)
\* mutant: the force flag is not consulted
UnpaidGuard_NoForce(p, force) == status[p] = "unpaid"

UnpaidGuard(p, force) == status[p] = "unpaid" /\ ~force

\* mutant: the in-memory status is tested instead of the persisted one
DeletedGuard_InMemory(p) == status[p] = "deleted"

DeletedGuard(p) == dbStatus[p] = "deleted"

SetStatus(p, s, force) ==
    /\ pc[p] = "idle"
    /\ p \in collection
    /\ Enter(p, "set_status", force)
    /\ LifeUnchanged
    /\ UNCHANGED <<dbService, ns, rc, svc, svcCreated, inst, pc>>
    /\ IF UnpaidGuard(p, force)
       THEN /\ result' = [result EXCEPT ![p] = "NotAllowedToChangeUnpaidStatus"]
            /\ UNCHANGED <<status, dbStatus>>
       ELSE IF dbStatus[p] = NoRecord
       THEN /\ result' = [result EXCEPT ![p] = "PodDoesNotExist"]
            /\ UNCHANGED <<status, dbStatus>>
       ELSE IF DeletedGuard(p)
       THEN /\ result' = [result EXCEPT ![p] = "NotAllowedToChangeDeletedStatus"]
            /\ UNCHANGED <<status, dbStatus>>
       ELSE /\ dbStatus' = [dbStatus EXCEPT ![p] = s]
            /\ status' = [status EXCEPT ![p] = s]
            /\ result' = [result EXCEPT ![p] = "ok"]

(***************************************************************************)
(* PodCollection.get_by_id on an id that is not in the collection          *)
(***************************************************************************)
GetByIdMissing(p) ==
    /\ p \notin collection
    /\ result[p] # "NoSuchItem"
    /\ result' = [result EXCEPT ![p] = "NoSuchItem"]
    /\ LifeUnchanged
    /\ UNCHANGED <<status, dbStatus, dbService, ns, rc, svc, svcCreated, inst,
                   pc, cur, log>>

(***************************************************************************)
(* The orchestrator running the instances of a workload                    *)
(***************************************************************************)
Spawn(p, i) ==
    /\ rc[p]
    /\ i \notin inst[p]
    /\ inst' = [inst EXCEPT ![p] = @ \cup {i}]
    /\ LifeUnchanged
    /\ UNCHANGED <<status, dbStatus, dbService, ns, rc, svc, svcCreated, pc,
                   cur, log, result>>

(***************************************************************************)
(* PodCollection._stop_cluster, called by _stop_pod and by delete          *)
(***************************************************************************)
StopClusterCalls(p, D) ==
    [k \in 1 .. Cardinality(Related(p)) |->
        Call("del_instance", SetToSeq(Related(p))[k] \in D)]

StopCluster(p) ==
    /\ pc[p] \in {"stop_cluster", "del_cluster"}
    /\ \E D \in SUBSET Related(p) :
        /\ inst' = [inst EXCEPT ![p] = @ \ D]
        /\ log' = [log EXCEPT ![p] = @ \o StopClusterCalls(p, D)]
    /\ IF pc[p] = "del_cluster"
       THEN Goto(p, "del_unbind")
       ELSE \* _stop_pod: _raise_if_failure(rv) of the workload delete
            LET rv == log[p][1].ok
            IN  IF RaiseIfFailure(rv) THEN Finish(p, "CouldNotStopPod")
                ELSE Finish(p, "stopped")
    /\ LifeUnchanged
    /\ UNCHANGED <<status, dbStatus, dbService, ns, rc, svc, svcCreated, cur>>

(***************************************************************************)
(* PodCollection.update: command 'start' -> _start_pod                     *)
(***************************************************************************)
StartBegin(p) ==
    /\ Callable(p)
    /\ Enter(p, "start", FALSE)
    /\ pc' = [pc EXCEPT ![p] = "start_ns"]
    /\ result' = [result EXCEPT ![p] = "running"]
    /\ LifeUnchanged
    /\ UNCHANGED <<status, dbStatus, dbService, ns, rc, svc, svcCreated, inst>>

\* _make_namespace: POST only when _get_namespace returned None; rv is dropped
MakeNamespace(p) ==
    /\ pc[p] = "start_ns"
    /\ IF ns[p]
       THEN UNCHANGED <<ns, log>>
       ELSE \E ok \in BOOLEAN :
               /\ ns' = [ns EXCEPT ![p] = ok]
               /\ Append1(p, Call("create_ns", ok))
    /\ Goto(p, "start_svc")
    /\ LifeUnchanged
    /\ UNCHANGED <<status, dbStatus, dbService, rc, svc, svcCreated, inst, cur>>

\* mutant: the recorded service name is not consulted
NeedsService_NoLookup(p) == pod[p].ports

\* not pod.get_config('service') and some container has ports
NeedsService(p) == dbService[p] = 0 /\ pod[p].ports

\* mutant: the result of the service creation is not checked
StartService_Unchecked(p) ==
    /\ pc[p] = "start_svc"
    /\ IF NeedsService(p)
       THEN \E ok \in PostOutcomes(ns[p] /\ svcCreated[p] < MaxSvc) :
               /\ Append1(p, Call("create_service", ok))
               /\ IF ok
                  THEN /\ svcCreated' = [svcCreated EXCEPT ![p] = @ + 1]
                       /\ svc' = [svc EXCEPT ![p] = @ \cup {svcCreated[p] + 1}]
                  ELSE UNCHANGED <<svc, svcCreated>>
               /\ Goto(p, "start_cfg")
       ELSE /\ Goto(p, "start_prepare")
            /\ UNCHANGED <<svc, svcCreated, log>>
    /\ LifeUnchanged
    /\ UNCHANGED <<status, dbStatus, dbService, ns, rc, inst, cur>>

\* _run_service and _raise_if_failure(service_rv, ...)
StartService(p) ==
    /\ pc[p] = "start_svc"
    /\ IF NeedsService(p)
       THEN \E ok \in PostOutcomes(ns[p] /\ svcCreated[p] < MaxSvc) :
               /\ Append1(p, Call("create_service", ok))
               /\ IF RaiseIfFailure(ok)
                  THEN /\ Finish(p, "CouldNotStartService")
                       /\ UNCHANGED <<svc, svcCreated>>
                  ELSE /\ svcCreated' = [svcCreated EXCEPT ![p] = @ + 1]
                       /\ svc' = [svc EXCEPT ![p] = @ \cup {svcCreated[p] + 1}]
                       /\ Goto(p, "start_cfg")
       ELSE /\ Goto(p, "start_prepare")
            /\ UNCHANGED <<svc, svcCreated, log>>
    /\ LifeUnchanged
    /\ UNCHANGED <<status, dbStatus, dbService, ns, rc, inst, cur>>

\* _update_pod_config(pod, service=service_rv['metadata']['name'])
UpdatePodConfig(p) ==
    /\ pc[p] = "start_cfg"
    /\ dbService' = [dbService EXCEPT ![p] = svcCreated[p]]
    /\ Append1(p, Call("persist_service", TRUE))
    /\ Goto(p, "start_prepare")
    /\ LifeUnchanged
    /\ UNCHANGED <<status, dbStatus, ns, rc, svc, svcCreated, inst, cur>>

\* config = pod.prepare(): reads self.sid, an AttributeError when it is not set
StartPrepare(p) ==
    /\ pc[p] = "start_prepare"
    /\ IF pod[p].sid THEN Goto(p, "start_post")
       ELSE Finish(p, "AttributeError")
    /\ LifeUnchanged
    /\ UNCHANGED <<status, dbStatus, dbService, ns, rc, svc, svcCreated, inst,
                   cur, log>>

\* _post([pod.kind], config) and _raise_if_failure(rv, ...)
StartWorkload(p) ==
    /\ pc[p] = "start_post"
    /\ \E ok \in PostOutcomes(ns[p] /\ ~rc[p]) :
        /\ Append1(p, Call("create_workload", ok))
        /\ IF RaiseIfFailure(ok)
           THEN /\ Finish(p, "CouldNotStartPod")
                /\ UNCHANGED rc
           ELSE /\ rc' = [rc EXCEPT ![p] = TRUE]
                /\ Finish(p, "pending")
    /\ LifeUnchanged
    /\ UNCHANGED <<status, dbStatus, dbService, ns, svc, svcCreated, inst, cur>>

(***************************************************************************)
(* PodCollection.update: command 'stop' -> _stop_pod                       *)
(***************************************************************************)
StopBegin(p) ==
    /\ Callable(p)
    /\ Enter(p, "stop", FALSE)
    /\ status' = [status EXCEPT ![p] = "stopped"]
    /\ IF pod[p].sid
       THEN /\ pc' = [pc EXCEPT ![p] = "stop_del"]
            /\ result' = [result EXCEPT ![p] = "running"]
       ELSE Finish(p, "None")
    /\ LifeUnchanged
    /\ UNCHANGED <<dbStatus, dbService, ns, rc, svc, svcCreated, inst>>

\* rv = _del([pod.kind, pod.sid]); if pod.cluster: ...; _raise_if_failure(rv)
StopWorkload(p) ==
    /\ pc[p] = "stop_del"
    /\ \E ok \in DelOutcomes(rc[p]) :
        /\ Append1(p, Call("del_workload", ok))
        /\ rc' = [rc EXCEPT ![p] = @ /\ ~ok]
        /\ CASE pod[p].cluster = "absent" -> Finish(p, "AttributeError")
             [] pod[p].cluster = "true"   -> Goto(p, "stop_cluster")
             [] OTHER -> IF RaiseIfFailure(ok) THEN Finish(p, "CouldNotStopPod")
                         ELSE Finish(p, "stopped")
    /\ LifeUnchanged
    /\ UNCHANGED <<status, dbStatus, dbService, ns, svc, svcCreated, inst, cur>>

(***************************************************************************)
(* PodCollection.delete                                                    *)
(***************************************************************************)
\* pod.owner == KUBERDOCK_INTERNAL_USER and not force
ServicePodGuard(p, force) == PyEq(pod[p].owner, KUBERDOCK_INTERNAL_USER) /\ ~force

DeleteBegin(p, force) ==
    /\ Callable(p)
    /\ Enter(p, "delete", force)
    /\ IF ServicePodGuard(p, force)
       THEN Finish(p, "ServicePodCannotBeRemoved")
       ELSE /\ pc' = [pc EXCEPT ![p] = "del_workload"]
            /\ result' = [result EXCEPT ![p] = "running"]
    /\ LifeUnchanged
    /\ UNCHANGED <<status, dbStatus, dbService, ns, rc, svc, svcCreated, inst>>

\* mutant: the attribute test is dropped
HasSid_Always(p) == TRUE

\* hasattr(pod, 'sid')
HasSid(p) == pod[p].sid

\* if hasattr(pod, 'sid'): _del workload, _raise_if_failure, if pod.cluster
DeleteWorkload(p) ==
    /\ pc[p] = "del_workload"
    /\ IF HasSid(p)
       THEN \E ok \in DelOutcomes(rc[p]) :
               /\ Append1(p, Call("del_workload", ok))
               /\ IF RaiseIfFailure(ok)
                  THEN /\ Finish(p, "CouldNotRemovePod")
                       /\ UNCHANGED rc
                  ELSE /\ rc' = [rc EXCEPT ![p] = FALSE]
                       /\ CASE pod[p].cluster = "absent" ->
                                   Finish(p, "AttributeError")
                            [] pod[p].cluster = "true" -> Goto(p, "del_cluster")
                            [] OTHER -> Goto(p, "del_unbind")
       ELSE /\ Goto(p, "del_unbind")
            /\ UNCHANGED <<rc, log>>
    /\ LifeUnchanged
    /\ UNCHANGED <<status, dbStatus, dbService, ns, svc, svcCreated, inst, cur>>

\* service_name = pod.get_config('service'); the service's public-ip-state
\* annotation names a node ('assigned-to') -> modify_node_ips(node, 'del', ...)
DeleteUnbind(p) ==
    /\ pc[p] = "del_unbind"
    /\ IF dbService[p] # 0
       THEN \E assigned \in (IF dbService[p] \in svc[p] THEN BOOLEAN ELSE {FALSE}) :
               IF assigned
               THEN \E res \in BOOLEAN :
                       /\ Append1(p, Call("unbind_ip", res))
                       /\ IF ~res THEN Finish(p, "CantUnbindIp")
                          ELSE Goto(p, "del_service")
               ELSE /\ Goto(p, "del_service")
                    /\ UNCHANGED log
       ELSE /\ Goto(p, "del_freeip")
            /\ UNCHANGED log
    /\ LifeUnchanged
    /\ UNCHANGED <<status, dbStatus, dbService, ns, rc, svc, svcCreated, inst, cur>>

\* rv = _del(['services', service_name]); _raise_if_failure(rv, ...)
DeleteService(p) ==
    /\ pc[p] = "del_service"
    /\ \E ok \in DelOutcomes(dbService[p] \in svc[p]) :
        /\ Append1(p, Call("del_service", ok))
        /\ IF RaiseIfFailure(ok)
           THEN /\ Finish(p, "CouldNotRemoveService")
                /\ UNCHANGED svc
           ELSE /\ svc' = [svc EXCEPT ![p] = @ \ {dbService[p]}]
                /\ Goto(p, "del_freeip")
    /\ LifeUnchanged
    /\ UNCHANGED <<status, dbStatus, dbService, ns, rc, svcCreated, inst, cur>>

\* if hasattr(pod, 'public_ip'): pod._free_ip()
DeleteFreeIp(p) ==
    /\ pc[p] = "del_freeip"
    /\ IF pod[p].public_ip
       THEN \E ok \in BOOLEAN :
               /\ Append1(p, Call("free_ip", ok))
               /\ IF ok THEN Goto(p, "del_ns") ELSE Finish(p, "FreeIpError")
       ELSE /\ Goto(p, "del_ns")
            /\ UNCHANGED log
    /\ LifeUnchanged
    /\ UNCHANGED <<status, dbStatus, dbService, ns, rc, svc, svcCreated, inst, cur>>

\* mutant: the result of the namespace delete is not checked
DropNamespace_Unchecked(p) ==
    /\ pc[p] = "del_ns"
    /\ \E ok \in DelOutcomes(ns[p]) :
        /\ Append1(p, Call("del_ns", ok))
        /\ IF ok
           THEN /\ ns' = [ns EXCEPT ![p] = FALSE]
                /\ rc' = [rc EXCEPT ![p] = FALSE]
                /\ svc' = [svc EXCEPT ![p] = {}]
                /\ inst' = [inst EXCEPT ![p] = {}]
           ELSE UNCHANGED <<ns, rc, svc, inst>>
        /\ Goto(p, "del_mark")
    /\ LifeUnchanged
    /\ UNCHANGED <<status, dbStatus, dbService, svcCreated, cur>>

\* _drop_namespace: _del(['namespaces', namespace]); _raise_if_failure(rv, ...)
\* the orchestrator removes the objects of a deleted namespace with it
DropNamespace(p) ==
    /\ pc[p] = "del_ns"
    /\ \E ok \in DelOutcomes(ns[p]) :
        /\ Append1(p, Call("del_ns", ok))
        /\ IF RaiseIfFailure(ok)
           THEN /\ Finish(p, "CannotDeleteNamespace")
                /\ UNCHANGED <<ns, rc, svc, inst>>
           ELSE /\ ns' = [ns EXCEPT ![p] = FALSE]
                /\ rc' = [rc EXCEPT ![p] = FALSE]
                /\ svc' = [svc EXCEPT ![p] = {}]
                /\ inst' = [inst EXCEPT ![p] = {}]
                /\ Goto(p, "del_mark")
    /\ LifeUnchanged
    /\ UNCHANGED <<status, dbStatus, dbService, svcCreated, cur>>

\* ModelQuery._mark_pod_as_deleted(pod_id)
MarkPodAsDeleted(p) ==
    /\ pc[p] = "del_mark"
    /\ dbStatus' = [dbStatus EXCEPT ![p] = "deleted"]
    /\ Append1(p, Call("mark_deleted", TRUE))
    /\ Finish(p, "ok")
    /\ LifeUnchanged
    /\ UNCHANGED <<status, dbService, ns, rc, svc, svcCreated, inst, cur>>

(***************************************************************************)
(* Specification of the lifecycle                                          *)
(***************************************************************************)
Owners == {PodOwner("None", "None"), PodOwner("1", "user1"),
           PodOwner("2", KUBERDOCK_INTERNAL_USER.val)}

\* hasattr(pod, 'sid') and pod.cluster (set by _get_pods when a controller is
\* related, or carried by the persisted config)
SidCluster == {<<FALSE, "absent">>, <<TRUE, "absent">>, <<TRUE, "true">>,
               <<TRUE, "false">>}

PodAttrs == {[owner |-> o, sid |-> sc[1], cluster |-> sc[2], ports |-> po,
              public_ip |-> ip] :
                o \in Owners, sc \in SidCluster, po \in BOOLEAN, ip \in BOOLEAN}

NoPod == [owner |-> PodOwner("None", "None"), sid |-> FALSE, cluster |-> "absent",
          ports |-> FALSE, public_ip |-> FALSE]

InitLife(members) ==
    /\ collection = members
    /\ \E f \in [members -> PodAttrs] :
          pod = [p \in Pods |-> IF p \in members THEN f[p] ELSE NoPod]
    /\ status = [p \in Pods |-> IF p \in members THEN "stopped" ELSE NoStatus]
    /\ \E f \in [members -> {NoRecord, "stopped"}] :
          dbStatus = [p \in Pods |-> IF p \in members THEN f[p] ELSE NoRecord]
    /\ dbService = [p \in Pods |-> 0]
    /\ ns = [p \in Pods |-> FALSE]
    /\ rc = [p \in Pods |-> FALSE]
    /\ svc = [p \in Pods |-> {}]
    /\ svcCreated = [p \in Pods |-> 0]
    /\ inst = [p \in Pods |-> {}]
    /\ pc = [p \in Pods |-> "idle"]
    /\ cur = [p \in Pods |-> [op |-> "none", force |-> FALSE,
                              st0 |-> NoStatus, db0 |-> NoRecord]]
    /\ log = [p \in Pods |-> <<>>]
    /\ result = [p \in Pods |-> "none"]

\* the variables of prepare, at rest while the lifecycle is explored
PrepIdle ==
    /\ pVolumes = NoAttr
    /\ pContainers = <<>>
    /\ pServiceAccount = FALSE
    /\ uuid = 0
    /\ specs = <<>>

\* the variables of compose_persistent, at rest likewise
DiskIdle ==
    /\ disks = [k \in DiskKeys |-> NoDisk]
    /\ dOwner = "1"
    /\ dReuse = TRUE
    /\ dVolumes = <<>>
    /\ dPublic = <<>>
    /\ dIdx = 0
    /\ dClean = {}
    /\ dResult = NoError
    /\ dFound = "none"

ContainerIdle ==
    /\ tOwner = PodOwner("None", "None")
    /\ tContainer = [name |-> "", ports |-> <<>>, imagePullPolicy |-> ""]
    /\ tOut = <<>>

FetchIdle ==
    /\ fItems = <<>>
    /\ fReplicas = <<>>
    /\ fDb = <<>>
    /\ fColl = <<>>
    /\ fIndex = {}
    /\ fPos = 0
    /\ fPc = "done"
    /\ fErr = "none"

RelatedIdle ==
    /\ rOne = [k \in {} |-> ""]
    /\ rTwo = [k \in {} |-> ""]
    /\ rOut = "none"

NoLabels == [has |-> FALSE, map |-> [k \in {} |-> ""]]
NoLabelsOut == [done |-> FALSE, labels |-> [k \in {} |-> ""]]

LabelIdle ==
    /\ lId = ""
    /\ lOwnerId = 0
    /\ lLabels = NoLabels
    /\ lOut = NoLabelsOut

AddIdle == aAdds = <<>>

CrossIdle ==
    /\ xState = <<>>
    /\ xStart = <<>>
    /\ xNsOf = <<>>
    /\ xOp = <<>>

NoOwner == [has |-> FALSE, username |-> <<>>]
NoNamespaces == [done |-> FALSE, names |-> {}]

ScopeIdle ==
    /\ gOwner = NoOwner
    /\ gOut = NoNamespaces

ExtraIdle == LabelIdle /\ AddIdle /\ CrossIdle /\ ScopeIdle

RestIdle == ContainerIdle /\ FetchIdle /\ RelatedIdle /\ ExtraIdle

Init == InitLife({"p1"}) /\ PrepIdle /\ DiskIdle /\ RestIdle

Next ==
    \E p \in Pods :
        \/ \E s \in POD_STATUSES, force \in BOOLEAN : SetStatus(p, s, force)
        \/ GetByIdMissing(p)
        \/ \E i \in Instances : Spawn(p, i)
        \/ StartBegin(p)
        \/ MakeNamespace(p)
        \/ StartService(p)
        \/ UpdatePodConfig(p)
        \/ StartPrepare(p)
        \/ StartWorkload(p)
        \/ StopBegin(p)
        \/ StopWorkload(p)
        \/ StopCluster(p)
        \/ \E force \in BOOLEAN : DeleteBegin(p, force)
        \/ DeleteWorkload(p)
        \/ DeleteUnbind(p)
        \/ DeleteService(p)
        \/ DeleteFreeIp(p)
        \/ DropNamespace(p)
        \/ MarkPodAsDeleted(p)

Spec == Init /\ [][Next]_vars

(***************************************************************************)
(* Pod.prepare and the functions it calls                                  *)
(***************************************************************************)

\* a name given by the user, and a name made of a prefix and uuid4().hex
UserName(n) == [prefix |-> "", id |-> n]
GenName(prefix, k) == [prefix |-> prefix, id |-> ToString(k)]

KdtoolsPrefix == "kdtools-"
StubPrefix == "serviceaccount-stub-"

\* name.startswith(prefix)
StartsWith(name, prefix) == name.prefix = prefix

MOUNT_KDTOOLS_PATH == "/.kdtools"
SERVICE_ACCOUNT_STUB_PATH == "/var/run/secrets/kubernetes.io/serviceaccount"

IsKdtools(x) == StartsWith(x.name, KdtoolsPrefix)

\* volumes.remove(kdtools_vol[0]): the first kdtools entry is removed
RemoveFirstKdtools(seq) ==
    IF \E i \in 1 .. Len(seq) : IsKdtools(seq[i])
    THEN LET i == CHOOSE k \in 1 .. Len(seq) :
                     IsKdtools(seq[k]) /\ \A j \in 1 .. k - 1 : ~IsKdtools(seq[j])
         IN  SubSeq(seq, 1, i - 1) \o SubSeq(seq, i + 1, Len(seq))
    ELSE seq

RECURSIVE Flatten(_)
Flatten(ss) == IF ss = <<>> THEN <<>> ELSE Head(ss) \o Flatten(Tail(ss))

\* extract_volume_annotations: the annotations popped from the volumes ...
VolumeAnnotations(volumes) ==
    LET withAnn == SelectSeq(volumes, LAMBDA v : v.ann)
    IN  [k \in 1 .. Len(withAnn) |-> withAnn[k].name]

\* ... and the volumes as the pops leave them
AnnotationsPopped(volumes) ==
    [k \in 1 .. Len(volumes) |-> [volumes[k] EXCEPT !.ann = FALSE]]

\* _prepare_container on a deep copy of the container
PrepareContainer(c) == [c EXCEPT !.imagePullPolicy = "Always"]

\* the containers prepare builds: mounts of missing volumes are dropped
FilterMounts(c, existing_vols) ==
    [c EXCEPT !.volumeMounts =
        SelectSeq(c.volumeMounts, LAMBDA m : m.name \in existing_vols)]

\* add_kdtools(containers, volumes): the volumes afterwards ...
KdtoolsVolumes(volumes, k) ==
    Append(RemoveFirstKdtools(volumes),
           [name |-> GenName(KdtoolsPrefix, k), ann |-> FALSE, src |-> "hostPath"])

\* ... and a container afterwards
KdtoolsMount(c, k) ==
    [c EXCEPT !.volumeMounts =
        Append(RemoveFirstKdtools(c.volumeMounts),
               [name |-> GenName(KdtoolsPrefix, k), cfi |-> "absent",
                mountPath |-> MOUNT_KDTOOLS_PATH])]

\* add_serviceaccount_stub(containers, volumes): the volumes afterwards ...
StubVolumes(volumes, k) ==
    Append(volumes, [name |-> GenName(StubPrefix, k), ann |-> FALSE,
                     src |-> "emptyDir"])

\* ... and a container afterwards
StubMount(c, k) ==
    [c EXCEPT !.volumeMounts =
        Append(c.volumeMounts,
               [name |-> GenName(StubPrefix, k), cfi |-> "absent",
                mountPath |-> SERVICE_ACCOUNT_STUB_PATH])]

\* _get_volumes_to_prefill: the names of the mounts of self.containers whose
\* kdCopyFromImage is true ...
VolumesToPrefill(containers) ==
    Flatten([i \in 1 .. Len(containers) |->
        LET flagged == SelectSeq(containers[i].volumeMounts,
                                 LAMBDA m : m.cfi = "true")
        IN  [k \in 1 .. Len(flagged) |-> flagged[k].name]])

\* ... and self.containers as the pops leave them
MarkersPopped(containers) ==
    [i \in 1 .. Len(containers) |->
        [containers[i] EXCEPT !.volumeMounts =
            [k \in 1 .. Len(containers[i].volumeMounts) |->
                [containers[i].volumeMounts[k] EXCEPT !.cfi = "absent"]]]]

\* the value prepare returns, with the volumes list it leaves behind
PrepareResult(selfVolumes, selfContainers, service_account, u) ==
    LET volumes0    == IF selfVolumes.has THEN selfVolumes.list ELSE <<>>
        annotations == VolumeAnnotations(volumes0)
        volumes1    == AnnotationsPopped(volumes0)
        existing    == {volumes1[k].name : k \in 1 .. Len(volumes1)}
        containers1 == [i \in 1 .. Len(selfContainers) |->
                          PrepareContainer(FilterMounts(selfContainers[i], existing))]
        volumes2    == KdtoolsVolumes(volumes1, u + 1)
        containers2 == [i \in 1 .. Len(containers1) |->
                          KdtoolsMount(containers1[i], u + 1)]
        volumes3    == IF service_account THEN volumes2
                       ELSE StubVolumes(volumes2, u + 2)
        containers3 == IF service_account THEN containers2
                       ELSE [i \in 1 .. Len(containers2) |->
                                StubMount(containers2[i], u + 2)]
    IN  [volumes |-> volumes3,
         containers |-> containers3,
         volume_annotations |-> annotations,
         volumes_to_prefill |-> VolumesToPrefill(selfContainers),
         uuids |-> IF service_account THEN 1 ELSE 2]

Prepare ==
    /\ Len(specs) < MaxPrepare
    /\ LET r == PrepareResult(pVolumes, pContainers, pServiceAccount, uuid)
       IN  /\ specs' = Append(specs, [volumes |-> r.volumes,
                                      containers |-> r.containers,
                                      volume_annotations |-> r.volume_annotations,
                                      volumes_to_prefill |-> r.volumes_to_prefill])
           \* volumes is self.volumes itself when the attribute is set
           /\ pVolumes' = IF pVolumes.has THEN Attr(r.volumes) ELSE NoAttr
           /\ pContainers' = MarkersPopped(pContainers)
           /\ uuid' = uuid + r.uuids
    /\ UNCHANGED <<pServiceAccount, lifeVars, diskVars, restVars>>

(***************************************************************************)
(* Specification of prepare: a pod as the API accepts it, prepared         *)
(* repeatedly                                                              *)
(***************************************************************************)
VolumeNames == {"v1", "v2"}
MountNames == VolumeNames \cup {"v3"}

\* the declared volumes: distinct names, each with or without an annotation
InitVolumes ==
    {NoAttr, Attr(<<>>)}
    \cup {Attr(<<[name |-> UserName(n), ann |-> a, src |-> "user"]>>) :
             n \in VolumeNames, a \in BOOLEAN}
    \cup {Attr(<<[name |-> UserName("v1"), ann |-> a, src |-> "user"],
                 [name |-> UserName("v2"), ann |-> b, src |-> "user"]>>) :
             a \in BOOLEAN, b \in BOOLEAN}

InitMount == [name : {UserName(n) : n \in MountNames},
              cfi : {"absent", "true", "false"},
              mountPath : {"/data"}]

RECURSIVE SeqsUpTo(_, _)
SeqsUpTo(S, n) ==
    IF n = 0 THEN {<<>>}
    ELSE LET shorter == SeqsUpTo(S, n - 1)
         IN  shorter \cup {Append(q, x) : q \in shorter, x \in S}

InitContainers ==
    {<<[name |-> "c1", volumeMounts |-> ms, imagePullPolicy |-> "IfNotPresent"]>> :
        ms \in SeqsUpTo(InitMount, MaxMounts)}

InitPrepare ==
    /\ pVolumes \in InitVolumes
    /\ pContainers \in InitContainers
    /\ pServiceAccount \in BOOLEAN
    /\ uuid = 0
    /\ specs = <<>>
    /\ InitLife({})
    /\ DiskIdle
    /\ RestIdle

NextPrepare == Prepare

SpecPrepare == InitPrepare /\ [][NextPrepare]_vars

(***************************************************************************)
(* Pod.compose_persistent, one volume of the loop per step                 *)
(***************************************************************************)
\* a volume as declared: 'persistentDisk' {pdName, pdSize} (pdSize 0 when not
\* given), 'localStorage' (empty, with a path, or without), or neither
Decls ==
    [kind : {"persistentDisk"}, pdName : {"d1"}, pdSize : 0 .. MaxSize,
     ls : {"none"}]
    \cup [kind : {"localStorage"}, pdName : {""}, pdSize : {0},
          ls : {"empty", "path", "derived"}]
    \cup [kind : {"other"}, pdName : {""}, pdSize : {0}, ls : {"none"}]

\* pd.get('pdSize', 1)
RequestedSize(pd) == IF pd.pdSize = 0 THEN 1 ELSE pd.pdSize

\* compose_persistent(reuse_pv) is called on a pod of some owner with some
\* declared volumes
ComposeBegin ==
    /\ dIdx = 0
    /\ dVolumes = <<>> /\ dResult = NoError
    /\ \E owner \in {"1", "2"}, volumes \in SeqsUpTo(Decls, MaxDecls),
          reuse_pv \in BOOLEAN :
        /\ dOwner' = owner
        /\ dReuse' = reuse_pv
        /\ dVolumes' = volumes
        \* not getattr(self, 'volumes', False): volumes_public = [], return
        /\ dPublic' = volumes
        /\ dIdx' = IF volumes = <<>> THEN 0 ELSE 1
    /\ dClean' = {}
    /\ dResult' = NoError
    /\ dFound' = "none"
    /\ UNCHANGED <<disks, lifeVars, prepVars, restVars>>

\* mutant: a DELETED row keeps its old size
Provisioned_KeepsSize(row, pd) ==
    IF row = NoDisk
    THEN [state |-> "PENDING", size |-> RequestedSize(pd), rows |-> 1]
    ELSE [row EXCEPT !.state = "PENDING"]

\* the row _handle_persistent_storage leaves when it does not raise: rows
\* counts the rows added for the key (db.session.add)
Provisioned(row, pd) ==
    IF row = NoDisk
    THEN [state |-> "PENDING", size |-> RequestedSize(pd), rows |-> 1]
    ELSE IF row.state = "DELETED"
    THEN [row EXCEPT !.state = "PENDING", !.size = RequestedSize(pd)]
    ELSE [row EXCEPT !.state = "PENDING"]

\* mutant: the row is set PENDING before the name conflict is raised
HandlePersistentStorage_StateFirst ==
    /\ dIdx # 0 /\ dIdx <= Len(dVolumes)
    /\ dVolumes[dIdx].kind = "persistentDisk"
    /\ LET pd  == dVolumes[dIdx]
           key == <<dOwner, pd.pdName>>
           row == disks[key]
           new == Provisioned(row, pd)
       IN  IF row # NoDisk /\ row.state # "DELETED" /\ ~dReuse
           THEN /\ dResult' = VolumeExists(pd.pdName, DiskId(key))
                /\ disks' = [disks EXCEPT ![key] = new]
                /\ dIdx' = 0
                /\ UNCHANGED <<dVolumes, dPublic>>
           ELSE /\ disks' = [disks EXCEPT ![key] = new]
                /\ dPublic' = [dPublic EXCEPT ![dIdx].pdSize =
                                  IF @ = 0 THEN new.size ELSE @]
                /\ dVolumes' = [dVolumes EXCEPT ![dIdx].kind = "enriched"]
                /\ dIdx' = dIdx + 1
                /\ UNCHANGED dResult
    \* persistent_disk = PersistentDisk.filter_by(...).first()
    /\ dFound' = disks[<<dOwner, dVolumes[dIdx].pdName>>].state
    /\ UNCHANGED <<dOwner, dReuse, dClean, lifeVars, prepVars, restVars>>

\* _handle_persistent_storage(volume, volume_public, reuse_pv)
HandlePersistentStorage ==
    /\ dIdx # 0 /\ dIdx <= Len(dVolumes)
    /\ dVolumes[dIdx].kind = "persistentDisk"
    /\ LET pd  == dVolumes[dIdx]
           key == <<dOwner, pd.pdName>>
           row == disks[key]
           new == Provisioned(row, pd)
       IN  IF row # NoDisk /\ row.state # "DELETED" /\ ~dReuse
           THEN /\ dResult' = VolumeExists(pd.pdName, DiskId(key))
                /\ dIdx' = 0
                /\ UNCHANGED <<disks, dVolumes, dPublic>>
           ELSE /\ disks' = [disks EXCEPT ![key] = new]
                /\ dPublic' = [dPublic EXCEPT ![dIdx].pdSize =
                                  IF @ = 0 THEN new.size ELSE @]
                /\ dVolumes' = [dVolumes EXCEPT ![dIdx].kind = "enriched"]
                /\ dIdx' = dIdx + 1
                /\ UNCHANGED dResult
    \* persistent_disk = PersistentDisk.filter_by(...).first()
    /\ dFound' = disks[<<dOwner, dVolumes[dIdx].pdName>>].state
    /\ UNCHANGED <<dOwner, dReuse, dClean, lifeVars, prepVars, restVars>>

\* _handle_local_storage(volume)
HandleLocalStorage ==
    /\ dIdx # 0 /\ dIdx <= Len(dVolumes)
    /\ dVolumes[dIdx].kind = "localStorage"
    /\ dVolumes' = [dVolumes EXCEPT ![dIdx].kind =
           IF dVolumes[dIdx].ls = "empty" THEN "bare" ELSE "hostPath"]
    /\ dIdx' = dIdx + 1
    /\ UNCHANGED <<disks, dOwner, dReuse, dPublic, dClean, dResult, dFound,
                   lifeVars,
                   prepVars, restVars>>

\* neither key: clean_vols.add(name)
HandleOther ==
    /\ dIdx # 0 /\ dIdx <= Len(dVolumes)
    /\ dVolumes[dIdx].kind = "other"
    /\ dClean' = dClean \cup {dIdx}
    /\ dIdx' = dIdx + 1
    /\ UNCHANGED <<disks, dOwner, dReuse, dVolumes, dPublic, dResult, dFound,
                   lifeVars,
                   prepVars, restVars>>

\* after the loop: the volumes in clean_vols are dropped from self.volumes
ComposeEnd ==
    /\ dIdx = Len(dVolumes) + 1
    /\ dVolumes' = [k \in 1 .. Len(dVolumes) |->
                      IF k \in dClean THEN [dVolumes[k] EXCEPT !.kind = "dropped"]
                      ELSE dVolumes[k]]
    /\ dIdx' = 0
    /\ UNCHANGED <<disks, dOwner, dReuse, dPublic, dClean, dResult, dFound,
                   lifeVars,
                   prepVars, restVars>>

\* the request is over and its Pod object is gone
PodDropped ==
    /\ dIdx = 0
    /\ dVolumes # <<>> \/ dResult # NoError
    /\ dOwner' = "1"
    /\ dReuse' = TRUE
    /\ dVolumes' = <<>>
    /\ dPublic' = <<>>
    /\ dClean' = {}
    /\ dResult' = NoError
    /\ dFound' = "none"
    /\ UNCHANGED <<disks, dIdx, lifeVars, prepVars, restVars>>

\* the rest of the platform moving a disk on: created, or deleted
DiskMoves(k, st) ==
    /\ dIdx = 0
    /\ disks[k] # NoDisk
    /\ disks[k].state # st
    /\ st \in {"CREATED", "DELETED"}
    /\ disks' = [disks EXCEPT ![k].state = st]
    /\ UNCHANGED <<dOwner, dReuse, dVolumes, dPublic, dIdx, dClean, dResult,
                   dFound,
                   lifeVars, prepVars, restVars>>

InitDisk ==
    /\ DiskIdle
    /\ PrepIdle
    /\ InitLife({})
    /\ RestIdle

NextDisk ==
    \/ ComposeBegin
    \/ HandlePersistentStorage
    \/ HandleLocalStorage
    \/ HandleOther
    \/ ComposeEnd
    \/ PodDropped
    \/ \E k \in DiskKeys, st \in DiskStates : DiskMoves(k, st)

SpecDisk == InitDisk /\ [][NextDisk]_vars

(***************************************************************************)
(* Pod._prepare_container, applied to one container                        *)
(***************************************************************************)
\* str.upper() on the protocols a port may carry
Upper(x) ==
    CASE x = "tcp" -> "TCP"
      [] x = "udp" -> "UDP"
      [] x = "Udp" -> "UDP"
      [] OTHER     -> x

\* self.owner if it is a string, else self.owner.username
OwnerName(owner) == IF owner.type = "str" THEN owner.val ELSE owner.username

\* mutant: the protocol is kept as it was given
PreparePort_AsGiven(p, owner_name) ==
    [protocol |-> IF p.protocol = "absent" THEN "TCP" ELSE p.protocol,
     isPublic |-> "absent",
     hostPort |-> IF owner_name # KUBERDOCK_INTERNAL_USER.val THEN "absent"
                  ELSE p.hostPort,
     containerPort |-> p.containerPort]

\* one port after the two loops over data['ports']: a key that was popped or
\* never given is "absent"
PreparePort(p, owner_name) ==
    [protocol |-> Upper(IF p.protocol = "absent" THEN "TCP" ELSE p.protocol),
     isPublic |-> "absent",
     hostPort |-> IF owner_name # KUBERDOCK_INTERNAL_USER.val THEN "absent"
                  ELSE p.hostPort,
     containerPort |-> p.containerPort]

\* _prepare_container(data) for a pod of the given owner
PrepareContainerOf(owner, data) ==
    [PrepareContainer(data) EXCEPT !.ports =
        [k \in 1 .. Len(data.ports) |-> PreparePort(data.ports[k], OwnerName(owner))]]

PrepareContainerCall ==
    /\ tOut = <<>>
    /\ tOut' = <<PrepareContainerOf(tOwner, tContainer)>>
    /\ UNCHANGED <<tOwner, tContainer, lifeVars, prepVars, diskVars, fetchVars,
                   relatedVars, extraVars>>

\* a port as the API accepts it
InitPort == [protocol : {"absent", "tcp", "Udp", "TCP"},
             isPublic : {"absent", "true", "false"},
             hostPort : {"absent", "8080"},
             containerPort : {"80"}]

\* the owner set by set_owner, or a bare username string
ContainerOwners == Owners \cup {[type |-> "str", val |-> "user1"],
                                KUBERDOCK_INTERNAL_USER}

InitContainer ==
    /\ tOwner \in ContainerOwners
    /\ \E ps \in SeqsUpTo(InitPort, MaxPorts) :
          tContainer = [name |-> "c1", ports |-> ps,
                        imagePullPolicy |-> "IfNotPresent"]
    /\ tOut = <<>>
    /\ InitLife({})
    /\ PrepIdle
    /\ DiskIdle
    /\ FetchIdle
    /\ RelatedIdle
    /\ ExtraIdle

NextContainer == PrepareContainerCall

SpecContainer == InitContainer /\ [][NextContainer]_vars

(***************************************************************************)
(* PodCollection.__init__: _get_pods over the fetched items, then _merge   *)
(* over the persisted pods                                                 *)
(***************************************************************************)
EmptyMap == [k \in {} |-> "web"]

\* metadata.labels of a pod item, spec.selector of a controller
LabelMaps == {EmptyMap, [name |-> "web"], [name |-> "db"], [tier |-> "front"],
              [name |-> "web", tier |-> "front"],
              [name |-> "db", tier |-> "front"]}

ItemName(k) == <<"pod", k>>

\* Pod.populate(item) for the k-th item fetched: sid is metadata.name; no
\* name attribute is set
Populate(item, k) ==
    [sid |-> ItemName(k), cluster |-> FALSE, has_name |-> FALSE, name |-> "",
     namespace |-> "ns1", id |-> "none", src |-> <<"live", k>>,
     containers |-> <<>>, status |-> "pending"]

\* the loop over replicas_data: the first related controller gives its name
\* as sid
Correlate(p, labels, replicas) ==
    IF \E r \in 1 .. Len(replicas) : IsRelated(labels, replicas[r].selector)
    THEN LET r == CHOOSE x \in 1 .. Len(replicas) :
                     /\ IsRelated(labels, replicas[x].selector)
                     /\ \A y \in 1 .. x - 1 :
                            ~IsRelated(labels, replicas[y].selector)
         IN  [p EXCEPT !.sid = replicas[r].name, !.cluster = TRUE]
    ELSE p

DictHas(coll, key) == \E k \in 1 .. Len(coll) : coll[k].key = key

\* self._collection[key] = p
DictSet(coll, key, p) ==
    IF DictHas(coll, key)
    THEN [k \in 1 .. Len(coll) |->
             IF coll[k].key = key THEN [key |-> key, pod |-> p] ELSE coll[k]]
    ELSE Append(coll, [key |-> key, pod |-> p])

DictGet(coll, key) == (CHOOSE e \in {coll[k] : k \in 1 .. Len(coll)} : e.key = key).pod

\* one turn of the loop of _get_pods
FetchItem ==
    /\ fPc = "fetch"
    /\ fPos < Len(fItems)
    /\ LET item == fItems[fPos + 1]
           p    == Correlate(Populate(item, fPos + 1), item.labels, fReplicas)
       IN  IF p.sid \notin fIndex
           THEN IF ~p.has_name
                THEN \* self._collection[pod.name, pod.namespace]: no attribute
                     /\ fPc' = "raised"
                     /\ fErr' = "AttributeError"
                     /\ UNCHANGED <<fColl, fIndex, fPos>>
                ELSE /\ fColl' = DictSet(fColl, <<p.name, p.namespace>>, p)
                     /\ fIndex' = fIndex \cup {p.sid}
                     /\ fPos' = fPos + 1
                     /\ UNCHANGED <<fPc, fErr>>
           ELSE /\ fPos' = fPos + 1
                /\ UNCHANGED <<fColl, fIndex, fPc, fErr>>
    /\ UNCHANGED <<fItems, fReplicas, fDb, lifeVars, prepVars, diskVars,
                   containerVars, relatedVars,
                   extraVars>>

\* _get_pods returns and _merge begins
FetchEnd ==
    /\ fPc = "fetch"
    /\ fPos = Len(fItems)
    /\ fPc' = "merge"
    /\ fPos' = 0
    /\ UNCHANGED <<fItems, fReplicas, fDb, fColl, fIndex, fErr, lifeVars,
                   prepVars, diskVars, containerVars, relatedVars,
                   extraVars>>

\* mutant: the forged containers are ready
ForgeDockers_Ready(containers, state) ==
    [k \in 1 .. Len(containers) |->
        [containers[k] EXCEPT !.state = state, !.ready = "true",
                              !.restartCount = "0"]]

\* Pod.forge_dockers(status)
ForgeDockers(containers, state) ==
    [k \in 1 .. Len(containers) |->
        [containers[k] EXCEPT !.state = state, !.ready = "false",
                              !.restartCount = "0"]]

\* Pod(json.loads(db_pod.config)): every key of the document is an attribute
PodFromConfig(config, k) ==
    [sid |-> <<"none", 0>>, cluster |-> FALSE, has_name |-> TRUE,
     name |-> config.name, namespace |-> config.namespace, id |-> config.id,
     src |-> <<"persisted", k>>, containers |-> config.containers,
     status |-> "none"]

\* Utilities.merge_lists(a, b, 'name'): the entries of a, and those of b whose
\* name a does not have
MergeLists(a, b) ==
    a \o SelectSeq(b, LAMBDA y : \A i \in 1 .. Len(a) : a[i].name # y.name)

\* one turn of the loop of _merge
MergePod ==
    /\ fPc = "merge"
    /\ fPos < Len(fDb)
    /\ LET db_pod == fDb[fPos + 1]
           key    == <<db_pod.name, db_pod.namespace>>
           coll1  ==
               IF ~DictHas(fColl, key)
               THEN LET p == PodFromConfig(db_pod.config, fPos + 1)
                        q == [p EXCEPT !.containers = ForgeDockers(@, "stopped")]
                    IN  DictSet(fColl, <<q.name, db_pod.namespace>>, q)
               ELSE LET p == DictGet(fColl, key)
                    IN  DictSet(fColl, key,
                                [p EXCEPT !.id = db_pod.id,
                                          !.containers =
                                              MergeLists(@, db_pod.config.containers)])
           p1     == DictGet(coll1, key)
       IN  \* hasattr(pod, 'status') fails: status = 'stopped'
           fColl' = IF p1.status = "none"
                    THEN DictSet(coll1, key, [p1 EXCEPT !.status = "stopped"])
                    ELSE coll1
    /\ fPos' = fPos + 1
    /\ UNCHANGED <<fItems, fReplicas, fDb, fIndex, fPc, fErr, lifeVars,
                   prepVars, diskVars, containerVars, relatedVars,
                   extraVars>>

MergeEnd ==
    /\ fPc = "merge"
    /\ fPos = Len(fDb)
    /\ fPc' = "done"
    /\ UNCHANGED <<fItems, fReplicas, fDb, fColl, fIndex, fPos, fErr, lifeVars,
                   prepVars, diskVars, containerVars, relatedVars,
                   extraVars>>

\* a container of a persisted document
DocContainer(n) == [name |-> n, image |-> "img", state |-> "none",
                    ready |-> "none", restartCount |-> "none"]

\* the persisted pods: the k-th row has id k; the document carries the name,
\* the namespace and the id of its row
DbPod(name, k) ==
    LET namespace == <<"user1", name, "pods">>
        cs == IF name = "web" THEN <<DocContainer("c1"), DocContainer("c2")>>
              ELSE <<DocContainer("c1")>>
    IN  [name |-> name, namespace |-> namespace, id |-> k,
         config |-> [name |-> name, namespace |-> namespace, id |-> k,
                     containers |-> cs]]

InitFetch ==
    /\ fItems \in SeqsUpTo([labels : LabelMaps], MaxItems)
    /\ fReplicas \in SeqsUpTo([name : {<<"rc", 1>>}, selector : LabelMaps], MaxRcs)
    /\ \E names \in SeqsUpTo({"web", "db"}, MaxDb) :
          fDb = [k \in 1 .. Len(names) |-> DbPod(names[k], k)]
    /\ fColl = <<>>
    /\ fIndex = {}
    /\ fPos = 0
    /\ fPc = "fetch"
    /\ fErr = "none"
    /\ InitLife({})
    /\ PrepIdle
    /\ DiskIdle
    /\ ContainerIdle
    /\ RelatedIdle
    /\ ExtraIdle

NextFetch ==
    \/ FetchItem
    \/ FetchEnd
    \/ MergePod
    \/ MergeEnd

SpecFetch == InitFetch /\ [][NextFetch]_vars

(***************************************************************************)
(* PodCollection._is_related, applied to one pair of maps                  *)
(***************************************************************************)
RelKeys == {"name", "tier"}
RelVals == {"web", "db"}

\* the maps with at most the keys of RelKeys
RelMaps == UNION {[D -> RelVals] : D \in SUBSET RelKeys}

\* the order in which two.keys() yields the keys is that of the dict
IsRelatedCall ==
    /\ rOut = "none"
    /\ IF DOMAIN rTwo = {}
       THEN rOut' = "None"
       ELSE \E first \in DOMAIN rTwo :
               rOut' = IF IsRelatedFrom(rOne, rTwo, first) THEN "True" ELSE "False"
    /\ UNCHANGED <<rOne, rTwo, lifeVars, prepVars, diskVars, containerVars,
                   fetchVars, extraVars>>

InitRelated ==
    /\ rOne \in RelMaps
    /\ rTwo \in RelMaps
    /\ rOut = "none"
    /\ InitLife({})
    /\ PrepIdle
    /\ DiskIdle
    /\ ContainerIdle
    /\ FetchIdle
    /\ ExtraIdle

NextRelated == IsRelatedCall

SpecRelated == InitRelated /\ [][NextRelated]_vars

(***************************************************************************)
(* Pod.prepare: the labels of the template                                 *)
(***************************************************************************)
RESERVED_POD_UID == "kuberdock-pod-uid"
RESERVED_USER_UID == "kuberdock-user-uid"

\* "labels": {"kuberdock-pod-uid": self.id,
\*            "kuberdock-user-uid": str(self.owner.id)}
TemplateLabels(id, owner_id) ==
    [k \in {RESERVED_POD_UID, RESERVED_USER_UID} |->
        IF k = RESERVED_POD_UID THEN id ELSE ToString(owner_id)]

\* _merge_pod_labels: for k, v in getattr(self, 'labels', {}).items():
\*     config['metadata']['labels'][k] = v
MergePodLabels(base, labels) ==
    LET own == IF labels.has THEN labels.map ELSE [k \in {} |-> ""]
    IN  [k \in DOMAIN base \cup DOMAIN own |->
            IF k \in DOMAIN own THEN own[k] ELSE base[k]]

PrepareLabels ==
    /\ ~lOut.done
    /\ lId # ""
    /\ lOut' = [done |-> TRUE,
                labels |-> MergePodLabels(TemplateLabels(lId, lOwnerId),
                                          lLabels)]
    /\ UNCHANGED <<lId, lOwnerId, lLabels, addVars, crossVars, scopeVars,
                   lifeVars, prepVars, diskVars, containerVars, fetchVars,
                   relatedVars>>

PodIds == {"u1", "u2"}
OwnerIds == {1, 2}
LabelKeys == {RESERVED_POD_UID, RESERVED_USER_UID, "app"}
LabelVals == {"u1", "2", "web"}
LabelDicts == UNION {[D -> LabelVals] : D \in SUBSET LabelKeys}

InitLabels ==
    /\ lId \in PodIds
    /\ lOwnerId \in OwnerIds
    /\ lLabels \in {NoLabels} \cup {[has |-> TRUE, map |-> m] : m \in LabelDicts}
    /\ lOut = NoLabelsOut
    /\ AddIdle
    /\ CrossIdle
    /\ ScopeIdle
    /\ InitLife({})
    /\ PrepIdle
    /\ DiskIdle
    /\ ContainerIdle
    /\ FetchIdle
    /\ RelatedIdle

NextLabels == PrepareLabels

SpecLabels == InitLabels /\ [][NextLabels]_vars

(***************************************************************************)
(* PodCollection.add: the namespace of a new pod                           *)
(***************************************************************************)
\* strings are sequences of characters; the alphabet has a lower-case letter,
\* an upper-case letter and the separator
Chars == {"a", "A", "-"}

\* str.lower() on one character
LowerChar(c) == IF c = "A" THEN "a" ELSE c

\* str.lower()
Lower(str) == [i \in DOMAIN str |-> LowerChar(str[i])]

\* '{0}-{1}-pods'.format(username, name)
Format(username, name) ==
    username \o <<"-">> \o name \o <<"-", "p", "o", "d", "s">>

\* namespace = '{0}-{1}-pods'.format(self.owner.username, params['name']).lower()
Namespace(username, name) == Lower(Format(username, name))

\* the non-empty strings of at most MaxName characters
Names == UNION {[1 .. n -> Chars] : n \in 1 .. MaxName}

\* add(params) on a collection of owner username: params['namespace'] is set
\* to the namespace derived and the pod is created with it
Add ==
    /\ Len(aAdds) < MaxAdds
    /\ \E username \in Names, name \in Names :
          aAdds' = Append(aAdds, [username |-> username, name |-> name,
                                  namespace |-> Namespace(username, name)])
    /\ UNCHANGED <<labelVars, crossVars, scopeVars, lifeVars, prepVars,
                   diskVars, containerVars, fetchVars, relatedVars>>

InitAdd ==
    /\ aAdds = <<>>
    /\ LabelIdle
    /\ CrossIdle
    /\ ScopeIdle
    /\ InitLife({})
    /\ PrepIdle
    /\ DiskIdle
    /\ ContainerIdle
    /\ FetchIdle
    /\ RelatedIdle

NextAdd == Add

SpecAdd == InitAdd /\ [][NextAdd]_vars

(***************************************************************************)
(* PodCollection._get_namespaces: the namespaces a collection fetches from *)
(***************************************************************************)
\* str.startswith(prefix)
StartsWithStr(str, prefix) ==
    /\ Len(prefix) <= Len(str)
    /\ SubSeq(str, 1, Len(prefix)) = prefix

\* str.endswith(suffix)
EndsWithStr(str, suffix) ==
    /\ Len(suffix) <= Len(str)
    /\ SubSeq(str, Len(str) - Len(suffix) + 1, Len(str)) = suffix

\* the names of the namespaces the orchestrator lists: those add derived
ExistingNamespaces == {aAdds[i].namespace : i \in 1 .. Len(aAdds)}

\* name.startswith(self.owner.username + '-') and name.endswith('-pods')
OwnerPattern(name, username) ==
    /\ StartsWithStr(name, username \o <<"-">>)
    /\ EndsWithStr(name, <<"-", "p", "o", "d", "s">>)

\* _get_namespaces: every item when self.owner is None, else the names that
\* match the owner's pattern
GetNamespaces ==
    /\ ~gOut.done
    /\ gOut' = [done |-> TRUE,
                names |-> IF ~gOwner.has THEN ExistingNamespaces
                          ELSE {n \in ExistingNamespaces :
                                    OwnerPattern(n, gOwner.username)}]
    /\ UNCHANGED <<gOwner, labelVars, addVars, crossVars, lifeVars, prepVars,
                   diskVars, containerVars, fetchVars, relatedVars>>

\* pods are added before the collection in question is built
AddBefore == ~gOut.done /\ Add

InitScope ==
    /\ gOwner \in {NoOwner} \cup {[has |-> TRUE, username |-> u] : u \in Names}
    /\ gOut = NoNamespaces
    /\ aAdds = <<>>
    /\ LabelIdle
    /\ CrossIdle
    /\ InitLife({})
    /\ PrepIdle
    /\ DiskIdle
    /\ ContainerIdle
    /\ FetchIdle
    /\ RelatedIdle

NextScope == AddBefore \/ GetNamespaces

SpecScope == InitScope /\ [][NextScope]_vars

(***************************************************************************)
(* Lifecycle operations on two pods of one collection                      *)
(*                                                                         *)
(* The orchestrator objects live in namespaces and each pod names its own  *)
(* in pod.namespace; two pods may name the same one.  The orchestrator     *)
(* answers every request by what exists: a POST succeeds where the         *)
(* namespace exists and the name is free, a DELETE where the object        *)
(* exists.  Both pods are cluster-backed pods of an ordinary owner with a  *)
(* sid, a container with ports and no public address.                      *)
(***************************************************************************)
Namespaces == {"n1", "n2"}
LifecycleOps == {"start", "stop", "delete"}

\* the pods whose objects live in namespace n
InNs(n) == {q \in Pods : xNsOf[q] = n}

XDone(s, p, res) == [s EXCEPT !.pc[p] = "done", !.result[p] = res]

\* update(pod_id, {'command': ...}) dispatching to _start_pod or _stop_pod
\* (which sets pod.status = 'stopped' first), or delete(pod_id)
XBegin(s, p) ==
    CASE xOp[p] = "start" -> [s EXCEPT !.pc[p] = "start_ns"]
      [] xOp[p] = "stop" -> [s EXCEPT !.status[p] = "stopped",
                                      !.pc[p] = "stop_del"]
      [] OTHER -> [s EXCEPT !.pc[p] = "del_workload"]

\* _make_namespace(pod.namespace)
XMakeNamespace(s, p) ==
    [s EXCEPT !.ns[xNsOf[p]] = TRUE, !.pc[p] = "start_svc"]

\* if not pod.get_config('service'): _run_service, _raise_if_failure
XRunService(s, p) ==
    IF ~s.dbService[p]
    THEN IF RaiseIfFailure(s.ns[xNsOf[p]])
         THEN XDone(s, p, "CouldNotStartService")
         ELSE [s EXCEPT !.svc[p] = TRUE, !.pc[p] = "start_cfg"]
    ELSE [s EXCEPT !.pc[p] = "start_post"]

\* _update_pod_config(pod, service=...)
XUpdatePodConfig(s, p) ==
    [s EXCEPT !.dbService[p] = TRUE, !.pc[p] = "start_post"]

\* _post([pod.kind], config, ns=pod.namespace) and _raise_if_failure
XStartWorkload(s, p) ==
    IF RaiseIfFailure(s.ns[xNsOf[p]] /\ ~s.rc[p])
    THEN XDone(s, p, "CouldNotStartPod")
    ELSE XDone([s EXCEPT !.rc[p] = TRUE], p, "pending")

\* _stop_pod: rv = _del([pod.kind, pod.sid], ns=pod.namespace)
XStopWorkload(s, p) ==
    [s EXCEPT !.rv[p] = s.rc[p], !.rc[p] = FALSE, !.pc[p] = "stop_cluster"]

\* _stop_cluster: every instance of pod.namespace related to
\* {'name': pod.name} is deleted
XStopCluster(s, p) ==
    [s EXCEPT !.inst = [q \in Pods |->
        IF q \in InNs(xNsOf[p])
        THEN {i \in s.inst[q] : ~IsRelated(InstLabels(q, i), [name |-> p])}
        ELSE s.inst[q]]]

\* _stop_pod after _stop_cluster: _raise_if_failure(rv, ...)
XStopEnd(s, p) ==
    IF RaiseIfFailure(s.rv[p])
    THEN XDone(XStopCluster(s, p), p, "CouldNotStopPod")
    ELSE XDone(XStopCluster(s, p), p, "stopped")

\* delete: _del([pod.kind, pod.sid], ns=pod.namespace), _raise_if_failure
XDeleteWorkload(s, p) ==
    IF RaiseIfFailure(s.rc[p])
    THEN XDone(s, p, "CouldNotRemovePod")
    ELSE [s EXCEPT !.rc[p] = FALSE, !.pc[p] = "del_cluster"]

XDeleteCluster(s, p) == [XStopCluster(s, p) EXCEPT !.pc[p] = "del_service"]

\* delete: the service recorded in the config is deleted
XDeleteService(s, p) ==
    IF s.dbService[p]
    THEN IF RaiseIfFailure(s.svc[p])
         THEN XDone(s, p, "CouldNotRemoveService")
         ELSE [s EXCEPT !.svc[p] = FALSE, !.pc[p] = "del_ns"]
    ELSE [s EXCEPT !.pc[p] = "del_ns"]

\* _drop_namespace(pod.namespace): the orchestrator removes the objects of
\* the namespace with it
XDropNamespace(s, p) ==
    IF RaiseIfFailure(s.ns[xNsOf[p]])
    THEN XDone(s, p, "CannotDeleteNamespace")
    ELSE [s EXCEPT
            !.ns[xNsOf[p]] = FALSE,
            !.rc = [q \in Pods |-> IF q \in InNs(xNsOf[p]) THEN FALSE
                                   ELSE s.rc[q]],
            !.svc = [q \in Pods |-> IF q \in InNs(xNsOf[p]) THEN FALSE
                                    ELSE s.svc[q]],
            !.inst = [q \in Pods |-> IF q \in InNs(xNsOf[p]) THEN {}
                                     ELSE s.inst[q]],
            !.pc[p] = "del_mark"]

\* _mark_pod_as_deleted(pod_id)
XMarkPodAsDeleted(s, p) ==
    XDone([s EXCEPT !.dbStatus[p] = "deleted"], p, "ok")

\* the next step of the operation called on p
XStep(s, p) ==
    CASE s.pc[p] = "idle"         -> XBegin(s, p)
      [] s.pc[p] = "start_ns"     -> XMakeNamespace(s, p)
      [] s.pc[p] = "start_svc"    -> XRunService(s, p)
      [] s.pc[p] = "start_cfg"    -> XUpdatePodConfig(s, p)
      [] s.pc[p] = "start_post"   -> XStartWorkload(s, p)
      [] s.pc[p] = "stop_del"     -> XStopWorkload(s, p)
      [] s.pc[p] = "stop_cluster" -> XStopEnd(s, p)
      [] s.pc[p] = "del_workload" -> XDeleteWorkload(s, p)
      [] s.pc[p] = "del_cluster"  -> XDeleteCluster(s, p)
      [] s.pc[p] = "del_service"  -> XDeleteService(s, p)
      [] s.pc[p] = "del_ns"       -> XDropNamespace(s, p)
      [] s.pc[p] = "del_mark"     -> XMarkPodAsDeleted(s, p)
      [] OTHER                    -> s

\* the operation called on p run to its end with nothing in between
RECURSIVE XRun(_, _)
XRun(s, p) == IF s.pc[p] = "done" THEN s ELSE XRun(XStep(s, p), p)

CrossStep(p) ==
    /\ xState.pc[p] # "done"
    /\ xState' = XStep(xState, p)
    /\ UNCHANGED <<xStart, xNsOf, xOp, labelVars, addVars, scopeVars, lifeVars,
                   prepVars, diskVars, containerVars, fetchVars, relatedVars>>

\* a pod is either not started or running with its service and instances
XInitial(running) ==
    [pc        |-> [p \in Pods |-> "idle"],
     ns        |-> [n \in Namespaces |-> \E q \in InNs(n) : running[q]],
     rc        |-> running,
     svc       |-> running,
     inst      |-> [p \in Pods |-> IF running[p] THEN Instances ELSE {}],
     status    |-> [p \in Pods |-> IF running[p] THEN "running" ELSE "stopped"],
     dbStatus  |-> [p \in Pods |-> IF running[p] THEN "running" ELSE "stopped"],
     dbService |-> running,
     rv        |-> [p \in Pods |-> FALSE],
     result    |-> [p \in Pods |-> "none"]]

InitCross ==
    /\ xNsOf \in [Pods -> Namespaces]
    /\ xOp \in [Pods -> LifecycleOps]
    /\ \E running \in [Pods -> BOOLEAN] : xState = XInitial(running)
    /\ xStart = xState
    /\ LabelIdle
    /\ AddIdle
    /\ ScopeIdle
    /\ InitLife({})
    /\ PrepIdle
    /\ DiskIdle
    /\ ContainerIdle
    /\ FetchIdle
    /\ RelatedIdle

NextCross == \E p \in Pods : CrossStep(p)

SpecCross == InitCross /\ [][NextCross]_vars

(***************************************************************************)
(* Properties of the lifecycle                                             *)
(***************************************************************************)
Calls(p) == {log[p][k].call : k \in 1 .. Len(log[p])}

\* requests to the orchestrator, as opposed to writes of the persisted record
\* and calls to the node network helper
OrchestratorCalls == {"create_ns", "create_service", "create_workload",
                      "del_workload", "del_instance", "del_service", "del_ns"}

SetStatusErrors == {"NotAllowedToChangeUnpaidStatus",
                    "NotAllowedToChangeDeletedStatus"}

\* C1: once the persisted status is 'deleted' no step changes it, and every
\* set_status call (any target status, forced or not) ends in an error
C1_DeletedIsAbsorbing ==
    [][\A p \in Pods :
          dbStatus[p] = "deleted" =>
             /\ dbStatus'[p] = "deleted"
             /\ \A s \in POD_STATUSES, force \in BOOLEAN :
                   SetStatus(p, s, force) =>
                      /\ result'[p] \in SetStatusErrors
                      /\ status'[p] = status[p]]_vars

\* a forced set_status was rejected on a pod whose persisted status is 'deleted'
C1_Witness ==
    \E p \in Pods :
        /\ dbStatus[p] = "deleted"
        /\ cur[p].op = "set_status" /\ cur[p].force /\ cur[p].db0 = "deleted"
        /\ result[p] = "NotAllowedToChangeDeletedStatus"

\* C2: set_status on a pod whose status is 'unpaid' fails without force and
\* changes neither status; with force, and a persisted status that is not
\* 'deleted', it sets the persisted and the in-memory status to the target
C2_UnpaidNeedsForce ==
    [][\A p \in Pods, s \in POD_STATUSES :
          status[p] = "unpaid" =>
             /\ SetStatus(p, s, FALSE) =>
                   /\ result'[p] = "NotAllowedToChangeUnpaidStatus"
                   /\ dbStatus'[p] = dbStatus[p]
                   /\ status'[p] = status[p]
             /\ (SetStatus(p, s, TRUE) /\ dbStatus[p] \notin {"deleted", NoRecord}) =>
                   /\ result'[p] = "ok"
                   /\ dbStatus'[p] = s
                   /\ status'[p] = s]_vars

\* a forced set_status took a pod out of 'unpaid'
C2_Witness ==
    \E p \in Pods :
        /\ cur[p].op = "set_status" /\ cur[p].force /\ cur[p].st0 = "unpaid"
        /\ result[p] = "ok"
        /\ status[p] = "running" /\ dbStatus[p] = "running"

\* what the status guards reject: persisted 'deleted', or 'unpaid' without force
GuardRejects(p) ==
    \/ cur[p].db0 = "deleted"
    \/ cur[p].db0 = "unpaid" /\ ~cur[p].force

\* C3: a start, stop or delete on a pod whose persisted status is 'deleted', or
\* 'unpaid' without force, issues no orchestrator request
C3_GuardsBeforeOrchestrator ==
    \A p \in Pods :
        (cur[p].op \in {"start", "stop", "delete"} /\ GuardRejects(p))
            => Calls(p) \cap OrchestratorCalls = {}

\* position of a call in the teardown order of delete
DeleteRank(c) ==
    CASE c = "del_workload" -> 1
      [] c = "del_instance" -> 1
      [] c = "unbind_ip"    -> 2
      [] c = "del_service"  -> 3
      [] c = "free_ip"      -> 4
      [] c = "del_ns"       -> 5
      [] c = "mark_deleted" -> 6
      [] OTHER              -> 0

\* the result of the delete of one instance by _stop_cluster is dropped
Checked(e) == e.call # "del_instance"

DeleteErrors == {"CouldNotRemovePod", "AttributeError", "CantUnbindIp",
                 "CouldNotRemoveService", "FreeIpError", "CannotDeleteNamespace"}

ForwardOnly(p) ==
    LET l == log[p] IN
    /\ \A i, j \in 1 .. Len(l) :
          i < j => /\ DeleteRank(l[i].call) >= 1
                   /\ DeleteRank(l[i].call) <= DeleteRank(l[j].call)
                   /\ Checked(l[j]) => DeleteRank(l[i].call) < DeleteRank(l[j].call)
    \* a failed step is the last one, and the error is raised
    /\ \A i \in 1 .. Len(l) :
          (Checked(l[i]) /\ ~l[i].ok) =>
              /\ i = Len(l)
              /\ pc[p] = "idle"
              /\ result[p] \in DeleteErrors
    \* an error leaves the persisted record as it was
    /\ (pc[p] = "idle" /\ result[p] \in DeleteErrors) =>
          /\ "mark_deleted" \notin Calls(p)
          /\ dbStatus[p] = cur[p].db0
    \* what the completed steps removed stays removed
    /\ (\E i \in 1 .. Len(l) : l[i].call = "del_workload" /\ l[i].ok) => ~rc[p]
    /\ (\E i \in 1 .. Len(l) : l[i].call = "del_service" /\ l[i].ok) =>
          dbService[p] \notin svc[p]
    /\ (\E i \in 1 .. Len(l) : l[i].call = "del_ns" /\ l[i].ok) => ~ns[p]
    /\ "mark_deleted" \in Calls(p) =>
          /\ dbStatus[p] = "deleted"
          /\ \E i \in 1 .. Len(l) : l[i].call = "del_ns" /\ l[i].ok

\* C4: delete tears down in the order workload, node ip unbind, service,
\* public ip, namespace, persisted record; a failed step ends it with an error,
\* no later step is made, the record is not marked deleted and nothing already
\* removed is restored
C4_ForwardOnlyTeardown ==
    \A p \in Pods : cur[p].op = "delete" => ForwardOnly(p)

\* a delete that removed the workload and then failed to remove the service
C4_Witness ==
    \E p \in Pods :
        /\ cur[p].op = "delete" /\ pc[p] = "idle"
        /\ result[p] = "CouldNotRemoveService"
        /\ Len(log[p]) >= 2
        /\ log[p][1] = Call("del_workload", TRUE)
        /\ ~rc[p] /\ ns[p] /\ dbStatus[p] # "deleted"

\* C5: delete of a pod of the internal user without force is refused, with no
\* call made and the persisted record unchanged
C5_ServicePodNeedsForce ==
    \A p \in Pods :
        (cur[p].op = "delete" /\ ~cur[p].force /\ is_internal(pod[p].owner)) =>
            /\ pc[p] = "idle"
            /\ result[p] = "ServicePodCannotBeRemoved"
            /\ log[p] = <<>>
            /\ dbStatus[p] = cur[p].db0

\* C6: delete of a pod without sid issues no workload delete, and when no step
\* fails it drops the namespace and marks the persisted record deleted
C6_DeleteWithoutSid ==
    \A p \in Pods :
        (cur[p].op = "delete" /\ ~pod[p].sid) =>
            /\ Calls(p) \cap {"del_workload", "del_instance"} = {}
            /\ (pc[p] = "idle" /\ result[p] # "ServicePodCannotBeRemoved"
                  /\ \A i \in 1 .. Len(log[p]) : log[p][i].ok) =>
                    /\ result[p] = "ok"
                    /\ Call("del_ns", TRUE) \in {log[p][i] : i \in 1 .. Len(log[p])}
                    /\ ~ns[p]
                    /\ dbStatus[p] = "deleted"

\* a pod without sid was deleted
C6_Witness ==
    \E p \in Pods :
        /\ cur[p].op = "delete" /\ ~pod[p].sid /\ cur[p].db0 # "deleted"
        /\ pc[p] = "idle" /\ result[p] = "ok"
        /\ dbStatus[p] = "deleted"

\* C7: at most one service is ever created for a pod, and a start that finds a
\* service name recorded in the config creates none
C7_AtMostOneService ==
    \A p \in Pods :
        /\ svcCreated[p] <= 1
        /\ (cur[p].op = "start" /\ dbService[p] # 0
              /\ "persist_service" \notin Calls(p))
                => "create_service" \notin Calls(p)

\* a later start of a pod with ports went through with the recorded service
C7_Witness ==
    \E p \in Pods :
        /\ cur[p].op = "start" /\ pod[p].ports
        /\ result[p] = "pending"
        /\ svcCreated[p] = 1 /\ dbService[p] = 1 /\ svc[p] = {1}
        /\ Calls(p) = {"create_workload"}

StartRank(c) ==
    CASE c = "create_ns"       -> 1
      [] c = "create_service"  -> 2
      [] c = "persist_service" -> 3
      [] c = "create_workload" -> 4
      [] OTHER                 -> 0

StartOrder(p) ==
    LET l == log[p] IN
    /\ \A i, j \in 1 .. Len(l) :
          i < j => /\ StartRank(l[i].call) >= 1
                   /\ StartRank(l[i].call) < StartRank(l[j].call)
    \* the name is persisted right after the service was created
    /\ \A i \in 1 .. Len(l) :
          l[i].call = "persist_service" =>
              /\ i > 1 /\ l[i - 1] = Call("create_service", TRUE)
              /\ dbService[p] = svcCreated[p]
              /\ dbService[p] # 0
    \* a failed service creation ends the start: nothing persisted or submitted
    /\ Call("create_service", FALSE) \in {l[i] : i \in 1 .. Len(l)} =>
          /\ pc[p] = "idle" /\ result[p] = "CouldNotStartService"
          /\ dbService[p] = 0
          /\ Calls(p) \cap {"persist_service", "create_workload"} = {}
    \* the workload of a pod with ports is submitted with a service recorded
    /\ ("create_workload" \in Calls(p) /\ pod[p].ports) => dbService[p] # 0
    \* a new service is followed by the write of its name
    /\ (Call("create_service", TRUE) \in {l[i] : i \in 1 .. Len(l)}
          /\ pc[p] # "start_cfg") => "persist_service" \in Calls(p)
    /\ "create_service" \in Calls(p) => pod[p].ports

\* C8: within one start the calls are made in the order namespace, service,
\* write of the service name, workload; the namespace is created only if
\* absent; after a failed service creation no name is written and no workload
\* submitted; a pod without ports gets no service
C8_StartOrder ==
    /\ [](\A p \in Pods :
            /\ cur[p].op = "start" => StartOrder(p)
            /\ ~pod[p].ports => svcCreated[p] = 0 /\ dbService[p] = 0)
    /\ [][\A p \in Pods :
            /\ (pc[p] = "start_ns" /\ pc'[p] # "start_ns") =>
                  /\ ns[p] => log'[p] = log[p]
                  /\ ~ns[p] => /\ Len(log'[p]) = 1
                               /\ log'[p][1].call = "create_ns"
                               /\ ns'[p] = log'[p][1].ok
            /\ (pc[p] # "start_ns" /\ cur[p].op = "start" /\ ~ns[p]) => ~ns'[p]]_vars

\* a start that created the namespace, the service and the workload
C8_Witness ==
    \E p \in Pods :
        /\ cur[p].op = "start" /\ result[p] = "pending"
        /\ log[p] = <<Call("create_ns", TRUE), Call("create_service", TRUE),
                      Call("persist_service", TRUE), Call("create_workload", TRUE)>>
        /\ dbService[p] = 1 /\ svc[p] = {1} /\ rc[p]

\* the live instances of p that match the selector of its workload
Matching(p) ==
    {i \in inst[p] : \A k \in DOMAIN WorkloadSelector(p) :
        k \in DOMAIN InstLabels(p, i) /\ InstLabels(p, i)[k] = WorkloadSelector(p)[k]}

InstanceDeletes(l) == Len(SelectSeq(l, LAMBDA e : e.call = "del_instance"))

\* C16: stop of a cluster-backed pod with a sid issues the delete of the
\* workload and then one delete for each live instance that matches the
\* selector of the pod's workload, and for no other instance
C16_StopDeletesMatching ==
    [][\A p \in Pods :
          (pc[p] = "stop_cluster" /\ pc'[p] # pc[p]) =>
              /\ log[p][1].call = "del_workload"
              /\ InstanceDeletes(log'[p]) = Cardinality(Matching(p))]_vars

(***************************************************************************)
(* Properties of prepare                                                   *)
(***************************************************************************)
\* a generated name with its uuid part erased
EraseName(n) == IF n.prefix = "" THEN n ELSE [n EXCEPT !.id = "*"]

EraseMounts(c) ==
    [c EXCEPT !.volumeMounts =
        [k \in 1 .. Len(c.volumeMounts) |->
            [c.volumeMounts[k] EXCEPT !.name = EraseName(@)]]]

\* what two structurally equal specs have in common: the number of volumes,
\* the containers with their mounts, the annotations
Structure(spec) ==
    [nvolumes |-> Len(spec.volumes),
     containers |-> [i \in 1 .. Len(spec.containers) |->
                        EraseMounts(spec.containers[i])],
     volume_annotations |-> spec.volume_annotations,
     volumes_to_prefill |-> spec.volumes_to_prefill]

\* C9: a second call of prepare on the same Pod returns a spec structurally
\* equal to the first, up to the generated names of the injected volumes
C9_PrepareIdempotent ==
    Len(specs) >= 2 => Structure(specs[2]) = Structure(specs[1])

\* C17: in a spec prepare returns no volume mount of a container carries the
\* kdCopyFromImage key (the names of the flagged mounts are in the
\* volumes-to-prefill annotation instead)
C17_NoMarkerInSpec ==
    \A n \in 1 .. Len(specs) :
        \A i \in 1 .. Len(specs[n].containers) :
            \A k \in 1 .. Len(specs[n].containers[i].volumeMounts) :
                specs[n].containers[i].volumeMounts[k].cfi = "absent"

(***************************************************************************)
(* Properties of compose_persistent                                        *)
(***************************************************************************)
\* the loop stands at a persistent-disk declaration
AtPersistentDisk ==
    /\ dIdx # 0 /\ dIdx <= Len(dVolumes)
    /\ dVolumes[dIdx].kind = "persistentDisk"

\* the row the declaration at hand names, for the owner of the pod
DeclaredKey == <<dOwner, dVolumes[dIdx].pdName>>

\* C10: provisioning a declaration that names an existing disk of the owner
\* that is not DELETED, with reuse disabled, raises VolumeExists with the name
\* and the id of that disk and leaves its state and size as they were
C10_VolumeExists ==
    [][(/\ AtPersistentDisk
        /\ disks[DeclaredKey] # NoDisk
        /\ disks[DeclaredKey].state # "DELETED"
        /\ ~dReuse
        /\ dIdx' # dIdx)
          => /\ dResult' = VolumeExists(dVolumes[dIdx].pdName, DiskId(DeclaredKey))
             /\ dIdx' = 0
             /\ disks' = disks]_vars

\* a declaration was refused for a disk of the owner that is in state CREATED
C10_Witness ==
    /\ dIdx = 0 /\ ~dReuse
    /\ dResult = VolumeExists("d1", DiskId(<<dOwner, "d1">>))
    /\ disks[<<dOwner, "d1">>].state = "CREATED"
    /\ disks[<<dOwner, "d1">>].size = 2

\* C11: provisioning a declaration that names a DELETED disk of the owner
\* resurrects it, whatever the reuse flag: its size becomes the requested one
\* (1 when none is requested), its state is no longer DELETED, and no second
\* row is added for that name
C11_DeletedResurrected ==
    [][(/\ AtPersistentDisk
        /\ disks[DeclaredKey].state = "DELETED"
        /\ dIdx' # dIdx)
          => /\ disks'[DeclaredKey].size = RequestedSize(dVolumes[dIdx])
             /\ disks'[DeclaredKey].state \notin {"DELETED", "NONE"}
             /\ disks'[DeclaredKey].rows = 1
             /\ \A k \in DiskKeys \ {DeclaredKey} : disks'[k] = disks[k]
             /\ dResult' = NoError]_vars

\* with reuse disabled, a DELETED disk was provisioned again with size 2
C11_Witness ==
    /\ ~dReuse /\ dResult = NoError
    /\ Len(dVolumes) >= 1 /\ dVolumes[1].kind = "enriched"
    /\ dPublic[1].pdSize = 2
    /\ dFound = "DELETED"
    /\ disks[<<dOwner, "d1">>].state = "PENDING"
    /\ disks[<<dOwner, "d1">>].size = 2
    /\ disks[<<dOwner, "d1">>].rows = 1

(***************************************************************************)
(* Properties of _prepare_container                                        *)
(***************************************************************************)
UpperCase == {"TCP", "UDP"}

\* C12: in the container _prepare_container returns every port has an
\* upper-case protocol (TCP when none was given) and no isPublic key, and no
\* port has a hostPort unless the owner is the internal user
C12_PortsNormalised ==
    \A i \in 1 .. Len(tOut) : \A k \in 1 .. Len(tOut[i].ports) :
        LET given == tContainer.ports[k]
            port  == tOut[i].ports[k]
        IN  /\ Len(tOut[i].ports) = Len(tContainer.ports)
            /\ port.protocol \in UpperCase
            /\ given.protocol = "absent" => port.protocol = "TCP"
            /\ port.isPublic = "absent"
            /\ OwnerName(tOwner) # KUBERDOCK_INTERNAL_USER.val
                  => port.hostPort = "absent"

\* a public udp port with a host port, of an ordinary user, was transformed
C12_Witness ==
    /\ Len(tOut) = 1
    /\ tOwner = PodOwner("1", "user1")
    /\ Len(tContainer.ports) = 2
    /\ tContainer.ports[2] = [protocol |-> "Udp", isPublic |-> "true",
                              hostPort |-> "8080", containerPort |-> "80"]
    /\ tOut[1].ports[2].protocol = "UDP"

(***************************************************************************)
(* Properties of the fetch and the merge                                   *)
(***************************************************************************)
Entries(key) == {k \in 1 .. Len(fColl) : fColl[k].key = key}

Forged(c) == c.state # "none" /\ c.ready = "false" /\ c.restartCount = "0"

\* the first persisted pod with the key of the j-th one
FirstWithKey(j) ==
    CHOOSE i \in 1 .. j :
        /\ fDb[i].name = fDb[j].name /\ fDb[i].namespace = fDb[j].namespace
        /\ \A h \in 1 .. i - 1 : fDb[h].name # fDb[j].name

Handled ==
    IF fPc = "raised" THEN fPos + 1
    ELSE IF fPc = "fetch" THEN fPos ELSE Len(fItems)

\* the pod _get_pods builds for the i-th item
Fetched(i) == Correlate(Populate(fItems[i], i), fItems[i].labels, fReplicas)

\* the instances fetched for the controller of the i-th item
SameController(i) ==
    {j \in 1 .. Len(fItems) : Fetched(j).cluster /\ Fetched(j).sid = Fetched(i).sid}

LiveEntries == {k \in 1 .. Len(fColl) : fColl[k].pod.src[1] = "live"}

\* C14: no two records of a fetch pass have the same sid, and of several
\* instances correlated with one controller the first in fetch order is the
\* record kept, the later ones are not inserted
C14_OnePerController ==
    /\ \A a, b \in LiveEntries :
          fColl[a].pod.sid = fColl[b].pod.sid => a = b
    /\ \A i \in 1 .. Handled :
          (Fetched(i).cluster /\ Cardinality(SameController(i)) >= 2) =>
              LET first == CHOOSE j \in SameController(i) :
                               \A h \in SameController(i) : j <= h
              IN  /\ \E k \in LiveEntries : fColl[k].pod.src = <<"live", first>>
                  /\ \A k \in LiveEntries, j \in SameController(i) :
                        fColl[k].pod.src = <<"live", j>> => j = first

(***************************************************************************)
(* Properties of _is_related                                               *)
(***************************************************************************)
SubsetMatch(labels, selector) ==
    \A k \in DOMAIN selector : k \in DOMAIN labels /\ labels[k] = selector[k]

\* C15: _is_related(labels, selector) is true exactly when every pair of the
\* selector is in the labels with an equal value
C15_SubsetMatch ==
    rOut # "none" => ((rOut = "True") <=> SubsetMatch(rOne, rTwo))

(***************************************************************************)
(* Properties of the template labels                                       *)
(***************************************************************************)
\* C18: in the spec prepare returns the template label kuberdock-pod-uid is
\* the pod's id and kuberdock-user-uid is the owner's id, whatever labels the
\* pod carries, those with the reserved keys included
C18_ReservedLabels ==
    lOut.done =>
        /\ lOut.labels[RESERVED_POD_UID] = lId
        /\ lOut.labels[RESERVED_USER_UID] = ToString(lOwnerId)

(***************************************************************************)
(* Properties of add                                                       *)
(***************************************************************************)
\* C20: two pods added with different (owner username, pod name) pairs never
\* receive the same namespace
C20_NamespaceInjective ==
    \A i, j \in 1 .. Len(aAdds) :
        <<aAdds[i].username, aAdds[i].name>> # <<aAdds[j].username, aAdds[j].name>>
            => aAdds[i].namespace # aAdds[j].namespace

(***************************************************************************)
(* Properties of operations on two pods                                    *)
(***************************************************************************)
\* the orchestrator objects and the persisted records
Outcome(s) == [ns |-> s.ns, rc |-> s.rc, svc |-> s.svc, inst |-> s.inst,
               dbStatus |-> s.dbStatus, dbService |-> s.dbService]

\* C19: whatever way the steps of an operation on one pod and of an operation
\* on another pod interleave, the orchestrator and the persisted records end
\* as they do when the two operations run one after the other
C19_Serialisable ==
    (\A p \in Pods : xState.pc[p] = "done") =>
        Outcome(xState) \in {Outcome(XRun(XRun(xStart, "p1"), "p2")),
                             Outcome(XRun(XRun(xStart, "p2"), "p1"))}

(***************************************************************************)
(* Properties of _get_namespaces                                           *)
(***************************************************************************)
\* the usernames add derived namespace n for
DerivedFor(n) ==
    {aAdds[i].username : i \in {j \in 1 .. Len(aAdds) : aAdds[j].namespace = n}}

\* C21: the candidate namespaces of a collection built with an owner are
\* namespaces add derived for that owner, and none of them is a namespace add
\* derived for another owner
C21_OwnerIsolation ==
    (gOut.done /\ gOwner.has) =>
        \A n \in gOut.names : DerivedFor(n) = {gOwner.username}

====
